---- MODULE Spec2Model ----
(***************************************************************************)
(* Holiday planner: the Vacation table and the operations that write it.  *)
(*                                                                         *)
(*   src/models.py                 the Vacation row                        *)
(*   src/database.py               create_/update_/delete_vacation         *)
(*   src/api.py                    POST /api/vacations/range and /toggle   *)
(*   src/database.py               the window and year queries             *)
(*   src/utils/calendar_utils.py   get_vacation_conflicts,                 *)
(*                                 generate_calendar_data                  *)
(*   src/pages/4_..._Calendar.py   the add, edit and delete forms          *)
(*                                                                         *)
(* Dates are day numbers (date + timedelta(days=1) is d + 1).  The store   *)
(* `rows` is what is committed, i.e. what any other session reads.  One    *)
(* request is handled at a time (the API handlers never await, the spec's  *)
(* single-writer assumption); the toggle handler commits twice, so its     *)
(* committed intermediate state is a state of the model.                   *)
(*                                                                         *)
(*   Spec        every write request, from the empty table                 *)
(*   SpecToggle  toggle requests only, from any normalized table           *)
(*   SpecRead    one call of a read function, on any table of valid rows   *)
(*   SpecReadStored   the same, on any table the create requests lead to   *)
(***************************************************************************)
EXTENDS Integers, Sequences, FiniteSets, TLC

\* ---------------------------------------------------------------- bounds
MaxDay == 3
MaxRows == 2

\* Ids stay within MaxId: a request that would need a larger id is not taken.
MaxId == MaxRows + 1

Employees == {1, 2}
Days == 1..MaxDay

\* Python's None (notes = None, exclude_vacation_id = None is modelled as 0).
None == "None"

\* The (type, notes) pairs a create or edit request carries: one type of the
\* form's selectbox other than the toggle's "vacation", with notes.
Payloads == {<<"sick", "n">>}

\* ------------------------------------------------------------ the table
\* models.Vacation: one row.
Vacation(id, employee_id, start_date, end_date, vacation_type, notes) ==
    [id |-> id, employee_id |-> employee_id, start_date |-> start_date,
     end_date |-> end_date, vacation_type |-> vacation_type, notes |-> notes]

NoRow == Vacation(0, 0, 0, 0, None, None)

\* models.Team and models.Employee: the columns the operations look at.
Team(id, name) == [id |-> id, name |-> name]
Employee(id, team_id) == [id |-> id, team_id |-> team_id]

\* The names a team is given.
TeamNames == {"a", "b"}

\* Column employees.team_id: employee 1 is of team 1, employee 2 of team 2.
EmployeeTeam == [e \in Employees |-> e]
Teams == {EmployeeTeam[e] : e \in Employees}

\* The teams and employees of the specifications that leave them alone.
FixedTeams == {Team(1, "a"), Team(2, "b")}
FixedEmployees == {Employee(e, EmployeeTeam[e]) : e \in Employees}

VARIABLES
    rows,   \* the committed rows of table vacations
    req,    \* the request being handled, or the last one handled
    pre,    \* the committed rows when that toggle request arrived
    prev,   \* the toggle request that succeeded just before it, where kept
    out,    \* the read call made on the table and what it returned
    teams,  \* the rows of table teams
    employee_rows,  \* the rows of table employees
    sessions,\* each browser session's run of the Calendar page's add form
    desktop \* the desktop planner: its members, their day-set objects, the last toggle

vars == <<rows, req, pre, prev, out, teams, employee_rows, sessions, desktop>>

SetMax(S) == CHOOSE x \in S : \A y \in S : y <= x

\* Column id is INTEGER PRIMARY KEY: SQLite gives a new row the largest id in
\* the table plus one.
NextId(rs) == IF rs = {} THEN 1 ELSE SetMax({v.id : v \in rs}) + 1

\* The filter shared by toggle_vacation's query and is_employee_on_vacation.
CoveringRows(rs, employee_id, d) ==
    {v \in rs : v.employee_id = employee_id /\ v.start_date <= d /\ v.end_date >= d}

is_employee_on_vacation(rs, employee_id, check_date) ==
    CoveringRows(rs, employee_id, check_date) # {}

\* A set of rows as the list a query without ORDER BY returns it (by id).
RECURSIVE ById(_)
ById(rs) ==
    IF rs = {} THEN <<>>
    ELSE LET m == CHOOSE v \in rs : \A w \in rs : v.id <= w.id
         IN <<m>> \o ById(rs \ {m})

get_vacations_by_employee(rs, employee_id) ==
    ById({v \in rs : v.employee_id = employee_id})

\* Mutant: the comparisons are strict, so a shared boundary day is no conflict.
ConflictsWithStrict(vacation, employee_id, start_date, end_date, exclude_vacation_id) ==
    /\ vacation.employee_id = employee_id
    /\ ~(exclude_vacation_id # 0 /\ vacation.id = exclude_vacation_id)
    /\ start_date < vacation.end_date
    /\ end_date > vacation.start_date

\* Mutant: the employee is not looked at.
ConflictsWithAnyEmployee(vacation, employee_id, start_date, end_date, exclude_vacation_id) ==
    /\ ~(exclude_vacation_id # 0 /\ vacation.id = exclude_vacation_id)
    /\ start_date <= vacation.end_date
    /\ end_date >= vacation.start_date

\* Mutant: exclude_vacation_id is ignored.
ConflictsWithNoExclude(vacation, employee_id, start_date, end_date, exclude_vacation_id) ==
    /\ vacation.employee_id = employee_id
    /\ start_date <= vacation.end_date
    /\ end_date >= vacation.start_date

\* calendar_utils.get_vacation_conflicts; exclude_vacation_id 0 is falsy, as
\* None is.
ConflictsWith(vacation, employee_id, start_date, end_date, exclude_vacation_id) ==
    /\ vacation.employee_id = employee_id
    /\ ~(exclude_vacation_id # 0 /\ vacation.id = exclude_vacation_id)
    /\ start_date <= vacation.end_date
    /\ end_date >= vacation.start_date

get_vacation_conflicts(employee_id, start_date, end_date, existing_vacations, exclude_vacation_id) ==
    SelectSeq(existing_vacations,
              LAMBDA v : ConflictsWith(v, employee_id, start_date, end_date,
                                       exclude_vacation_id))

\* ------------------------------------------------------- database.py CRUD
create_vacation(rs, employee_id, start_date, end_date, vacation_type, notes) ==
    rs \cup {Vacation(NextId(rs), employee_id, start_date, end_date,
                      vacation_type, notes)}

\* start_date, end_date and vacation_type are always truthy here; notes is
\* written only when it is not None.
update_vacation(rs, vacation_id, start_date, end_date, vacation_type, notes) ==
    {IF v.id = vacation_id
       THEN Vacation(v.id, v.employee_id, start_date, end_date, vacation_type,
                     IF notes # None THEN notes ELSE v.notes)
       ELSE v : v \in rs}

delete_vacation(rs, vacation_id) == {v \in rs : v.id # vacation_id}

\* ------------------------------------------------------------- requests
\* The request being handled: which handler, how far it is or how it ended,
\* and for a toggle its employee_id, date and the row its query found.
Request(op, status, employee_id, d, orig) ==
    [op |-> op, status |-> status, employee_id |-> employee_id, date |-> d,
     orig |-> orig]

\* The browser sessions of the Streamlit app: each runs the page script in a
\* thread of its own, on the one database.
Sessions == {1, 2}

\* A run of the add form of the Calendar page: where the script is, the
\* values submitted, the rows it read for the conflict check and the row it
\* created.
FormRun(pc, employee_id, start_date, end_date, all_vacations, new_vacation) ==
    [pc |-> pc, employee_id |-> employee_id, start_date |-> start_date,
     end_date |-> end_date, all_vacations |-> all_vacations,
     new_vacation |-> new_vacation]

FormOpen == FormRun("form", 0, 0, 0, <<>>, NoRow)

\* ------------------------------------------ holiday_planner.py (desktop)
\* Three of the members of the default data: the one whose day-set is built
\* first, the one built from a copy of it, and one built with no day-set.
Members == {"Jesus", "Adrian", "Alan"}

\* No toggle made yet.
NoToggle == <<"None", 0>>

\* The day-set each member has: what the set object its vacation_days
\* attribute refers to holds.
VacationDays(vacation_days, heap) == [m \in Members |-> heap[vacation_days[m]]]

\* TeamMember.__init__: `vacation_days if vacation_days else set()` keeps
\* the set object it is given when that is not empty, and makes a new one
\* otherwise. The heap is the sequence of set objects made so far; the
\* result is the heap and the reference the member holds.
TeamMember(heap, given) ==
    IF given # 0 /\ heap[given] # {}
      THEN <<heap, given>>
      ELSE <<Append(heap, {}), Len(heap) + 1>>

\* Mutant: Adrian is built from jesus_days itself, not from a copy.
initialize_default_data_shared ==
    LET jesus_days == <<Append(<<>>, Days), 1>>
        jesus == TeamMember(jesus_days[1], jesus_days[2])
        adrian == TeamMember(jesus[1], jesus_days[2])
        alan == TeamMember(adrian[1], 0)
    IN [vacation_days |-> [m \in Members |->
                             IF m = "Jesus" THEN jesus[2]
                             ELSE IF m = "Adrian" THEN adrian[2] ELSE alan[2]],
        heap |-> alan[1]]

\* initialize_default_data: jesus_days holds every day of the period; Adrian
\* is built from jesus_days.copy(), a new set object with the same days.
initialize_default_data ==
    LET jesus_days == <<Append(<<>>, Days), 1>>
        jesus == TeamMember(jesus_days[1], jesus_days[2])
        copy == <<Append(jesus[1], jesus[1][jesus_days[2]]), Len(jesus[1]) + 1>>
        adrian == TeamMember(copy[1], copy[2])
        alan == TeamMember(adrian[1], 0)
    IN [vacation_days |-> [m \in Members |->
                             IF m = "Jesus" THEN jesus[2]
                             ELSE IF m = "Adrian" THEN adrian[2] ELSE alan[2]],
        heap |-> alan[1]]

\* The planner once the default data is loaded, no day toggled yet.
DesktopStart ==
    [vacation_days |-> initialize_default_data.vacation_days,
     heap |-> initialize_default_data.heap,
     toggled |-> NoToggle,
     before |-> VacationDays(initialize_default_data.vacation_days,
                             initialize_default_data.heap)]

\* No handler is between two commits.
Idle == req.status # "deleting"

\* The table has room for n more rows within the bounds.
Room(rs, n) == Cardinality(rs) + n <= MaxRows /\ NextId(rs) + n - 1 <= MaxId

\* What the next toggle request remembers of the request before it: a toggle
\* that succeeded, with the rows it found.
NoPrev == [employee_id |-> 0, date |-> 0, rows |-> {}]

\* The history is not kept (Spec keeps none, SpecToggle does).
Untracked == [employee_id |-> -1, date |-> -1, rows |-> {}]

PrevToggle ==
    IF req.op = "toggle" /\ req.status \in {"removed", "added"}
      THEN [employee_id |-> req.employee_id, date |-> req.date, rows |-> pre]
      ELSE NoPrev

\* A request that starts remembers the toggle that succeeded just before it;
\* a handler between its two commits goes on.
RememberPrev ==
    prev' = IF prev = Untracked THEN Untracked
            ELSE IF req.status # "deleting" THEN PrevToggle ELSE prev

\* A read call with its arguments and its return value; NoRead: none made.
Read(op, args, result) == [op |-> op, args |-> args, result |-> result]
NoRead == Read("none", <<>>, <<>>)

Init ==
    /\ rows = {}
    /\ req = Request("none", "idle", 0, 0, NoRow)
    /\ pre = {}
    /\ prev = Untracked
    /\ out = NoRead
    /\ desktop = DesktopStart
    /\ sessions = [s \in Sessions |-> FormOpen]
    /\ teams = FixedTeams
    /\ employee_rows = FixedEmployees

\* ------------------------------------------- POST /api/vacations/range
\* create_vacation_range: create_vacation with the request's fields and no
\* check at all.
create_vacation_range(employee_id, start_date, end_date, vacation_type, notes) ==
    /\ Idle
    /\ Room(rows, 1)
    /\ rows' = create_vacation(rows, employee_id, start_date, end_date,
                               vacation_type, notes)
    /\ req' = Request("range", "created", 0, 0, NoRow)
    /\ pre' = {}
    /\ RememberPrev
    /\ UNCHANGED <<out, teams, employee_rows, sessions, desktop>>

\* ---------------------------------------------- the Calendar page's forms
\* "Añadir Vacaciones": the date check, then the conflict check on the
\* employee's rows, then create_vacation.
add_vacation_form(employee_id, start_date, end_date, vacation_type, notes) ==
    /\ Idle
    /\ pre' = {}
    /\ RememberPrev
    /\ UNCHANGED <<out, teams, employee_rows, sessions, desktop>>
    /\ LET all_vacations == get_vacations_by_employee(rows, employee_id)
           conflicts == get_vacation_conflicts(employee_id, start_date,
                                               end_date, all_vacations, 0)
       IN IF start_date > end_date
            THEN /\ rows' = rows
                 /\ req' = Request("add_form", "invalid", 0, 0, NoRow)
            ELSE IF conflicts # <<>>
            THEN /\ rows' = rows
                 /\ req' = Request("add_form", "conflict", 0, 0, NoRow)
            ELSE /\ Room(rows, 1)
                 /\ rows' = create_vacation(rows, employee_id, start_date,
                                            end_date, vacation_type, notes)
                 /\ req' = Request("add_form", "created", 0, 0, NoRow)

\* "Editar": the selected row of the selected employee, the date check, the
\* conflict check that excludes the row itself, then update_vacation.
edit_vacation_form(selected_vac, new_start, new_end, new_type, new_notes) ==
    /\ Idle
    /\ selected_vac \in rows
    /\ pre' = {}
    /\ RememberPrev
    /\ UNCHANGED <<out, teams, employee_rows, sessions, desktop>>
    /\ LET selected_emp == selected_vac.employee_id
           all_vacations == get_vacations_by_employee(rows, selected_emp)
           conflicts == get_vacation_conflicts(selected_emp, new_start, new_end,
                                               all_vacations, selected_vac.id)
       IN IF new_start > new_end
            THEN /\ rows' = rows
                 /\ req' = Request("edit_form", "invalid", 0, 0, NoRow)
            ELSE IF conflicts # <<>>
            THEN /\ rows' = rows
                 /\ req' = Request("edit_form", "conflict", 0, 0, NoRow)
            ELSE /\ rows' = update_vacation(rows, selected_vac.id, new_start,
                                            new_end, new_type, new_notes)
                 /\ req' = Request("edit_form", "updated", 0, 0, NoRow)

\* "Eliminar": delete_vacation on the selected row.
delete_vacation_button(selected_vac) ==
    /\ Idle
    /\ selected_vac \in rows
    /\ rows' = delete_vacation(rows, selected_vac.id)
    /\ req' = Request("delete", "deleted", 0, 0, NoRow)
    /\ pre' = {}
    /\ RememberPrev
    /\ UNCHANGED <<out, teams, employee_rows, sessions, desktop>>

\* ------------------------------------------ POST /api/vacations/toggle
\* The rows the handler adds after it has deleted `original` (api.py 215-235):
\* a left piece when the range starts before the day, a right piece when it
\* ends after it, both with the original's type and notes; rs is the table
\* they are inserted into.
\* Mutant: the right piece is forgotten.
toggle_pieces_no_right(original, d, rs) ==
    IF original.start_date < d
      THEN {Vacation(NextId(rs), original.employee_id, original.start_date,
                     d - 1, original.vacation_type, original.notes)}
      ELSE {}

\* Mutant: the comparisons are <= and >=, so a piece is written on each side
\* whatever the day.
toggle_pieces_inclusive(original, d, rs) ==
    {Vacation(NextId(rs), original.employee_id, original.start_date, d - 1,
              original.vacation_type, original.notes),
     Vacation(NextId(rs) + 1, original.employee_id, d + 1, original.end_date,
              original.vacation_type, original.notes)}

\* Mutant: the pieces are written with the column defaults.
toggle_pieces_default_type(original, d, rs) ==
    LET left == IF original.start_date < d
                  THEN {Vacation(NextId(rs), original.employee_id,
                                 original.start_date, d - 1, "vacation", None)}
                  ELSE {}
        right == IF original.end_date > d
                   THEN {Vacation(NextId(rs \cup left), original.employee_id,
                                  d + 1, original.end_date, "vacation", None)}
                   ELSE {}
    IN left \cup right

\* Mutant: the left piece is written when start_date <= d.
toggle_pieces_left_inclusive(original, d, rs) ==
    LET left == IF original.start_date <= d
                  THEN {Vacation(NextId(rs), original.employee_id,
                                 original.start_date, d - 1,
                                 original.vacation_type, original.notes)}
                  ELSE {}
        right == IF original.end_date > d
                   THEN {Vacation(NextId(rs \cup left), original.employee_id,
                                  d + 1, original.end_date,
                                  original.vacation_type, original.notes)}
                   ELSE {}
    IN left \cup right

toggle_pieces(original, d, rs) ==
    LET left == IF original.start_date < d
                  THEN {Vacation(NextId(rs), original.employee_id,
                                 original.start_date, d - 1,
                                 original.vacation_type, original.notes)}
                  ELSE {}
        right == IF original.end_date > d
                   THEN {Vacation(NextId(rs \cup left), original.employee_id,
                                  d + 1, original.end_date,
                                  original.vacation_type, original.notes)}
                   ELSE {}
    IN left \cup right

\* Mutant: the row found is not deleted.
toggle_vacation_delete_keeps(employee_id, d) ==
    /\ Idle
    /\ \E existing_vacation \in CoveringRows(rows, employee_id, d) :
          /\ rows' = rows
          /\ req' = Request("toggle", "deleting", employee_id, d, existing_vacation)
    /\ pre' = rows
    /\ RememberPrev
    /\ UNCHANGED <<out, teams, employee_rows, sessions, desktop>>

\* Mutant: every range of the employee is deleted with the covering one.
toggle_vacation_delete_all(employee_id, d) ==
    /\ Idle
    /\ \E existing_vacation \in CoveringRows(rows, employee_id, d) :
          /\ Room(rows \ {existing_vacation},
                  Cardinality(toggle_pieces(existing_vacation, d, {})))
          /\ rows' = {v \in rows : v.employee_id # employee_id}
          /\ req' = Request("toggle", "deleting", employee_id, d, existing_vacation)
    /\ pre' = rows
    /\ RememberPrev
    /\ UNCHANGED <<out, teams, employee_rows, sessions, desktop>>

\* A covered day, first half: the query finds a covering row (.first() of a
\* query without ORDER BY: any covering row), the handler deletes it and
\* commits (api.py 199-213).
toggle_vacation_delete(employee_id, d) ==
    /\ Idle
    /\ \E existing_vacation \in CoveringRows(rows, employee_id, d) :
          /\ Room(rows \ {existing_vacation},
                  Cardinality(toggle_pieces(existing_vacation, d, {})))
          /\ rows' = rows \ {existing_vacation}
          /\ req' = Request("toggle", "deleting", employee_id, d, existing_vacation)
    /\ pre' = rows
    /\ RememberPrev
    /\ UNCHANGED <<out, teams, employee_rows, sessions, desktop>>

\* A covered day, second half: the pieces are added and committed
\* (api.py 215-238).
toggle_vacation_split ==
    /\ req.status = "deleting"
    /\ rows' = rows \cup toggle_pieces(req.orig, req.date, rows)
    /\ req' = [req EXCEPT !.status = "removed"]
    /\ UNCHANGED pre
    /\ RememberPrev
    /\ UNCHANGED <<out, teams, employee_rows, sessions, desktop>>

\* A covered day, second half failing: the second commit raises (or the
\* process stops); session.rollback() undoes the uncommitted pieces only
\* (api.py 251-253).
toggle_vacation_split_fails ==
    /\ req.status = "deleting"
    /\ rows' = rows
    /\ req' = [req EXCEPT !.status = "error"]
    /\ UNCHANGED pre
    /\ RememberPrev
    /\ UNCHANGED <<out, teams, employee_rows, sessions, desktop>>

\* Mutant: the added day takes the type of a range the employee already has.
toggle_vacation_add_inherits_type(employee_id, d) ==
    /\ Idle
    /\ CoveringRows(rows, employee_id, d) = {}
    /\ Room(rows, 1)
    /\ LET own == {v.vacation_type : v \in {x \in rows : x.employee_id = employee_id}}
           vacation_type == IF own = {} THEN "vacation" ELSE CHOOSE t \in own : TRUE
       IN rows' = rows \cup {Vacation(NextId(rows), employee_id, d, d, vacation_type, None)}
    /\ req' = Request("toggle", "added", employee_id, d, NoRow)
    /\ pre' = rows
    /\ RememberPrev
    /\ UNCHANGED <<out, teams, employee_rows, sessions, desktop>>

\* Mutant: the new row runs to the next day.
toggle_vacation_add_next_day(employee_id, d) ==
    /\ Idle
    /\ CoveringRows(rows, employee_id, d) = {}
    /\ Room(rows, 1)
    /\ rows' = rows \cup {Vacation(NextId(rows), employee_id, d, d + 1, "vacation", None)}
    /\ req' = Request("toggle", "added", employee_id, d, NoRow)
    /\ pre' = rows
    /\ RememberPrev
    /\ UNCHANGED <<out, teams, employee_rows, sessions, desktop>>

\* An uncovered day: one row [d, d] of type "vacation" (api.py 240-249).
toggle_vacation_add(employee_id, d) ==
    /\ Idle
    /\ CoveringRows(rows, employee_id, d) = {}
    /\ Room(rows, 1)
    /\ rows' = rows \cup {Vacation(NextId(rows), employee_id, d, d, "vacation", None)}
    /\ req' = Request("toggle", "added", employee_id, d, NoRow)
    /\ pre' = rows
    /\ RememberPrev
    /\ UNCHANGED <<out, teams, employee_rows, sessions, desktop>>

\* The query or the first commit raises: nothing was committed, the handler
\* rolls back and answers 500.
toggle_vacation_fails(employee_id, d) ==
    /\ Idle
    /\ rows' = rows
    /\ req' = Request("toggle", "error", employee_id, d, NoRow)
    /\ pre' = rows
    /\ RememberPrev
    /\ UNCHANGED <<out, teams, employee_rows, sessions, desktop>>

\* ------------------------------------------------------- specification
Next ==
    \/ \E e \in Employees, s \in Days, t \in Days, p \in Payloads :
          create_vacation_range(e, s, t, p[1], p[2])
    \/ \E e \in Employees, s \in Days, t \in Days, p \in Payloads :
          add_vacation_form(e, s, t, p[1], p[2])
    \/ \E v \in rows, s \in Days, t \in Days, p \in Payloads :
          edit_vacation_form(v, s, t, p[1], p[2])
    \/ \E v \in rows : delete_vacation_button(v)
    \/ \E e \in Employees, d \in Days : toggle_vacation_delete(e, d)
    \/ toggle_vacation_split
    \/ toggle_vacation_split_fails
    \/ \E e \in Employees, d \in Days : toggle_vacation_add(e, d)
    \/ \E e \in Employees, d \in Days : toggle_vacation_fails(e, d)

Spec == Init /\ [][Next]_vars

\* Two rows of one employee that share a day, or of which one ends the day
\* before the other starts.
TouchOrOverlap(v, w) ==
    /\ v # w
    /\ v.employee_id = w.employee_id
    /\ \/ \E d \in Days : /\ v.start_date <= d /\ d <= v.end_date
                          /\ w.start_date <= d /\ d <= w.end_date
       \/ v.end_date + 1 = w.start_date

Normalized(rs) ==
    /\ \A v \in rs : v.start_date <= v.end_date
    /\ \A v \in rs, w \in rs : ~TouchOrOverlap(v, w)

\* The normalized tables that up to k create requests lead to.
RECURSIVE NormalizedTables(_)
NormalizedTables(k) ==
    IF k = 0 THEN {{}}
    ELSE LET T == NormalizedTables(k - 1)
             grown == {create_vacation(t, e, s, u, p[1], p[2]) :
                         t \in T, e \in Employees, s \in Days, u \in Days,
                         p \in Payloads}
         IN T \cup {t \in grown : Normalized(t)}

\* Toggle requests only, on a normalized table that leaves room for a split.
InitToggle ==
    /\ rows \in NormalizedTables(MaxRows - 1)
    /\ req = Request("none", "idle", 0, 0, NoRow)
    /\ pre = {}
    /\ prev = NoPrev
    /\ out = NoRead
    /\ desktop = DesktopStart
    /\ sessions = [s \in Sessions |-> FormOpen]
    /\ teams = FixedTeams
    /\ employee_rows = FixedEmployees

NextToggle ==
    \/ \E e \in Employees, d \in Days : toggle_vacation_delete(e, d)
    \/ toggle_vacation_split
    \/ toggle_vacation_split_fails
    \/ \E e \in Employees, d \in Days : toggle_vacation_add(e, d)
    \/ \E e \in Employees, d \in Days : toggle_vacation_fails(e, d)

SpecToggle == InitToggle /\ [][NextToggle]_vars

\* ------------------------------------------------------------- the reads
\* The or_ filter of the window queries and of the year query
\* (database.py 236-240, 252-256, 316-320).
InDateFilter(v, start_date, end_date) ==
    \/ v.start_date >= start_date /\ v.start_date <= end_date
    \/ v.end_date >= start_date /\ v.end_date <= end_date
    \/ v.start_date <= start_date /\ v.end_date >= end_date

get_vacations_by_date_range(rs, start_date, end_date) ==
    ById({v \in rs : InDateFilter(v, start_date, end_date)})

\* The join keeps the rows whose employee exists and is of the team.
get_vacations_by_team_and_date(rs, team_id, start_date, end_date) ==
    ById({v \in rs : /\ v.employee_id \in Employees
                     /\ EmployeeTeam[v.employee_id] = team_id
                     /\ InDateFilter(v, start_date, end_date)})

\* A year is YearLength days long: year 1 is days 1..YearLength, and so on.
YearLength == 2
Years == 1..((MaxDay + YearLength - 1) \div YearLength)
start_of_year(year) == (year - 1) * YearLength + 1
end_of_year(year) == year * YearLength

\* The loop that adds (end_date - start_date).days + 1 for each vacation.
RECURSIVE SumDays(_)
SumDays(vacations) ==
    IF vacations = <<>>
      THEN 0
      ELSE (Head(vacations).end_date - Head(vacations).start_date) + 1
             + SumDays(Tail(vacations))

\* database.get_employee_vacation_days; year 0 is falsy, as None is.
get_employee_vacation_days(rs, employee_id, year) ==
    LET query == {v \in rs : v.employee_id = employee_id}
        vacations == IF year # 0
                       THEN {v \in query : InDateFilter(v, start_of_year(year),
                                                        end_of_year(year))}
                       ELSE query
    IN SumDays(ById(vacations))

\* Mutant: the window test inside the loop is dropped.
RECURSIVE WhileCurrentUnclipped(_, _, _, _)
WhileCurrentUnclipped(current, vacation, start_date, end_date) ==
    IF current > vacation.end_date
      THEN {}
      ELSE {current}
             \cup WhileCurrentUnclipped(current + 1, vacation, start_date, end_date)

\* The while loop of generate_calendar_data: the days of the vacation from
\* `current` on that lie in the window (calendar_utils.py 51-55).
RECURSIVE WhileCurrent(_, _, _, _)
WhileCurrent(current, vacation, start_date, end_date) ==
    IF current > vacation.end_date
      THEN {}
      ELSE (IF start_date <= current /\ current <= end_date THEN {current} ELSE {})
             \cup WhileCurrent(current + 1, vacation, start_date, end_date)

\* The 'vacations' entries of one employee's item.
VacationList(emp_vacations) ==
    [i \in DOMAIN emp_vacations |->
        [start_date |-> emp_vacations[i].start_date,
         end_date |-> emp_vacations[i].end_date,
         type |-> emp_vacations[i].vacation_type,
         notes |-> emp_vacations[i].notes]]

RECURSIVE SumWindowDays(_, _, _)
SumWindowDays(emp_vacations, start_date, end_date) ==
    IF emp_vacations = <<>>
      THEN 0
      ELSE Cardinality(WhileCurrent(Head(emp_vacations).start_date,
                                    Head(emp_vacations), start_date, end_date))
             + SumWindowDays(Tail(emp_vacations), start_date, end_date)

\* Mutant: total_days adds up the window days of each vacation.
generate_calendar_data_summed(employees, vacations, start_date, end_date) ==
    [employee \in employees |->
        LET emp_vacations == SelectSeq(vacations, LAMBDA v : v.employee_id = employee)
            vacation_dates ==
                UNION {WhileCurrent(emp_vacations[i].start_date, emp_vacations[i],
                                    start_date, end_date) : i \in DOMAIN emp_vacations}
        IN [vacation_dates |-> vacation_dates,
            vacations |-> VacationList(emp_vacations),
            total_days |-> SumWindowDays(emp_vacations, start_date, end_date)]]

\* calendar_utils.generate_calendar_data: one item per employee, here keyed
\* by the employee's id.
generate_calendar_data(employees, vacations, start_date, end_date) ==
    [employee \in employees |->
        LET emp_vacations == SelectSeq(vacations, LAMBDA v : v.employee_id = employee)
            vacation_dates ==
                UNION {WhileCurrent(emp_vacations[i].start_date, emp_vacations[i],
                                    start_date, end_date) : i \in DOMAIN emp_vacations}
        IN [vacation_dates |-> vacation_dates,
            vacations |-> VacationList(emp_vacations),
            total_days |-> Cardinality(vacation_dates)]]

\* The tables that up to k calls of create_vacation lead to, whatever their
\* dates: rows may overlap, and may have start_date > end_date.
RECURSIVE StoredTables(_)
StoredTables(k) ==
    IF k = 0
      THEN {{}}
      ELSE LET T == StoredTables(k - 1)
           IN T \cup {create_vacation(t, e, s, u, p[1], p[2]) :
                         t \in T, e \in Employees, s \in Days, u \in Days,
                         p \in Payloads}

\* Those of them whose rows all have start_date <= end_date.
ValidTables(k) == {t \in StoredTables(k) : \A v \in t : v.start_date <= v.end_date}

Reverse(seq) == [i \in 1..Len(seq) |-> seq[Len(seq) + 1 - i]]

\* The list of the stored rows a caller passes: by id, or the other way round.
ListOf(rs, reversed) == IF reversed THEN Reverse(ById(rs)) ELSE ById(rs)

InitRead ==
    /\ rows \in ValidTables(MaxRows)
    /\ req = Request("none", "idle", 0, 0, NoRow)
    /\ pre = {}
    /\ prev = Untracked
    /\ out = NoRead
    /\ desktop = DesktopStart
    /\ sessions = [s \in Sessions |-> FormOpen]
    /\ teams = FixedTeams
    /\ employee_rows = FixedEmployees

InitReadStored ==
    /\ rows \in StoredTables(MaxRows)
    /\ req = Request("none", "idle", 0, 0, NoRow)
    /\ pre = {}
    /\ prev = Untracked
    /\ out = NoRead
    /\ desktop = DesktopStart
    /\ sessions = [s \in Sessions |-> FormOpen]
    /\ teams = FixedTeams
    /\ employee_rows = FixedEmployees

\* One call of each read function.
read_vacation_conflicts(employee_id, start_date, end_date, existing_vacations, exclude_vacation_id) ==
    /\ out' = Read("get_vacation_conflicts",
                   <<employee_id, start_date, end_date, existing_vacations,
                     exclude_vacation_id>>,
                   get_vacation_conflicts(employee_id, start_date, end_date,
                                          existing_vacations, exclude_vacation_id))
    /\ UNCHANGED <<rows, req, pre, prev, teams, employee_rows, sessions, desktop>>

read_calendar_data(employees, vacations, start_date, end_date) ==
    /\ out' = Read("generate_calendar_data",
                   <<employees, vacations, start_date, end_date>>,
                   generate_calendar_data(employees, vacations, start_date, end_date))
    /\ UNCHANGED <<rows, req, pre, prev, teams, employee_rows, sessions, desktop>>

read_employee_vacation_days(employee_id, year) ==
    /\ out' = Read("get_employee_vacation_days", <<employee_id, year>>,
                   get_employee_vacation_days(rows, employee_id, year))
    /\ UNCHANGED <<rows, req, pre, prev, teams, employee_rows, sessions, desktop>>

read_vacations_by_date_range(start_date, end_date) ==
    /\ out' = Read("get_vacations_by_date_range", <<0, start_date, end_date>>,
                   get_vacations_by_date_range(rows, start_date, end_date))
    /\ UNCHANGED <<rows, req, pre, prev, teams, employee_rows, sessions, desktop>>

read_vacations_by_team_and_date(team_id, start_date, end_date) ==
    /\ out' = Read("get_vacations_by_team_and_date", <<team_id, start_date, end_date>>,
                   get_vacations_by_team_and_date(rows, team_id, start_date, end_date))
    /\ UNCHANGED <<rows, req, pre, prev, teams, employee_rows, sessions, desktop>>

\* A behaviour makes one call.
NextRead ==
    \/ /\ out = NoRead
       /\ \E e \in Employees, s \in Days, t \in Days, reversed \in BOOLEAN,
             x \in 0..MaxRows :
               read_vacation_conflicts(e, s, t, ListOf(rows, reversed), x)
    \/ /\ out = NoRead
       /\ \E s \in Days, t \in Days :
             read_calendar_data(Employees, ListOf(rows, FALSE), s, t)
    \/ /\ out = NoRead
       /\ \E e \in Employees, y \in {0} \cup Years :
             read_employee_vacation_days(e, y)
    \/ /\ out = NoRead
       /\ \E s \in Days, t \in Days :
             s <= t /\ read_vacations_by_date_range(s, t)
    \/ /\ out = NoRead
       /\ \E m \in Teams, s \in Days, t \in Days :
             s <= t /\ read_vacations_by_team_and_date(m, s, t)

\* One read call on a table of valid rows; on any table of stored rows.
SpecRead == InitRead /\ [][NextRead]_vars
SpecReadStored == InitReadStored /\ [][NextRead]_vars

\* ------------------------------- the add form, one session at a time
\* Mutant: the form goes on to create_vacation whatever the check found.
add_vacation_submit_unchecked(s, employee_id, start_date, end_date) ==
    /\ sessions[s].pc = "form"
    /\ LET all_vacations == get_vacations_by_employee(rows, employee_id)
       IN sessions' = [sessions EXCEPT ![s] =
              IF start_date > end_date
                THEN FormRun("invalid", 0, 0, 0, <<>>, NoRow)
                ELSE FormRun("checked", employee_id, start_date, end_date,
                             all_vacations, NoRow)]
    /\ UNCHANGED <<rows, req, pre, prev, out, teams, employee_rows, desktop>>

\* `if submit:` up to the conflict check: the date check, then the read of
\* the employee's rows and get_vacation_conflicts on what was read.
add_vacation_submit(s, employee_id, start_date, end_date) ==
    /\ sessions[s].pc = "form"
    /\ LET all_vacations == get_vacations_by_employee(rows, employee_id)
           conflicts == get_vacation_conflicts(employee_id, start_date,
                                               end_date, all_vacations, 0)
       IN sessions' = [sessions EXCEPT ![s] =
              IF start_date > end_date
                THEN FormRun("invalid", 0, 0, 0, <<>>, NoRow)
              ELSE IF conflicts # <<>>
                THEN FormRun("conflict", 0, 0, 0, <<>>, NoRow)
                ELSE FormRun("checked", employee_id, start_date, end_date,
                             all_vacations, NoRow)]
    /\ UNCHANGED <<rows, req, pre, prev, out, teams, employee_rows, desktop>>

\* The else branch: create_vacation in a database session of its own, some
\* time after the read.
add_vacation_create(s, vacation_type, notes) ==
    /\ sessions[s].pc = "checked"
    /\ Room(rows, 1)
    /\ LET run == sessions[s]
           new_vacation == Vacation(NextId(rows), run.employee_id, run.start_date,
                                    run.end_date, vacation_type, notes)
       IN /\ rows' = create_vacation(rows, run.employee_id, run.start_date,
                                     run.end_date, vacation_type, notes)
          /\ sessions' = [sessions EXCEPT ![s] =
                 FormRun("created", run.employee_id, run.start_date, run.end_date,
                         run.all_vacations, new_vacation)]
    /\ UNCHANGED <<req, pre, prev, out, teams, employee_rows, desktop>>

\* The next run of the script after an error message. A session is followed
\* up to its first create.
add_vacation_rerun(s) ==
    /\ sessions[s].pc \in {"conflict", "invalid"}
    /\ sessions' = [sessions EXCEPT ![s] = FormOpen]
    /\ UNCHANGED <<rows, req, pre, prev, out, teams, employee_rows, desktop>>

InitSessions ==
    /\ rows = {}
    /\ req = Request("none", "idle", 0, 0, NoRow)
    /\ pre = {}
    /\ prev = Untracked
    /\ out = NoRead
    /\ desktop = DesktopStart
    /\ teams = FixedTeams
    /\ employee_rows = FixedEmployees
    /\ sessions = [s \in Sessions |-> FormOpen]

NextSessions ==
    \/ \E s \in Sessions, e \in Employees, start_date \in Days, end_date \in Days :
          add_vacation_submit(s, e, start_date, end_date)
    \/ \E s \in Sessions, p \in Payloads : add_vacation_create(s, p[1], p[2])
    \/ \E s \in Sessions : add_vacation_rerun(s)

SpecSessions == InitSessions /\ [][NextSessions]_vars

\* ------------------------------------------- the desktop planner's grid
\* HolidayPlannerGUI.toggle_vacation: remove_vacation_day (discard) when the
\* member is on vacation that day, add_vacation_day otherwise, both on the
\* set object the member refers to. The day-sets before the click and the
\* click itself are remembered.
toggle_vacation(member, date_str) ==
    /\ LET ref == desktop.vacation_days[member]
           is_on_vacation == date_str \in desktop.heap[ref]
       IN desktop' = [desktop EXCEPT
              !.heap[ref] = IF is_on_vacation THEN @ \ {date_str}
                                              ELSE @ \cup {date_str},
              !.toggled = <<member, date_str>>,
              !.before = VacationDays(desktop.vacation_days, desktop.heap)]
    /\ UNCHANGED <<rows, req, pre, prev, out, teams, employee_rows, sessions>>

InitDesktop ==
    /\ rows = {}
    /\ req = Request("none", "idle", 0, 0, NoRow)
    /\ pre = {}
    /\ prev = Untracked
    /\ out = NoRead
    /\ teams = FixedTeams
    /\ employee_rows = FixedEmployees
    /\ sessions = [s \in Sessions |-> FormOpen]
    /\ desktop = DesktopStart

NextDesktop == \E member \in Members, date_str \in Days : toggle_vacation(member, date_str)

SpecDesktop == InitDesktop /\ [][NextDesktop]_vars

\* ------------------------------------------ teams and employees (API)
\* The ids a request names: those a table can hold, used or not.
OrgIds == 1..MaxId

\* The except clause of the team and employee handlers, `except Exception
\* as e: raise HTTPException(status_code=400, ...)`, around a try block that
\* raises HTTPException(status_code): HTTPException is an Exception, so it is
\* caught there and a 400 is what leaves the handler (api.py 85-88).
RaisedInTry(status_code) == "400"

\* Mutant: no unique index on teams.name.
TeamNameNeverTaken(ts, name, but_id) == FALSE

\* Column teams.name is unique=True: SQLite refuses the INSERT or UPDATE.
TeamNameTaken(ts, name, but_id) == \E t \in ts : t.name = name /\ t.id # but_id

\* What a team or employee request leaves in req and pre; a delete request
\* keeps in pre the vacations stored when it arrived.
OrgRequestFrom(op, status, before) ==
    /\ req' = Request(op, status, 0, 0, NoRow)
    /\ pre' = before
    /\ RememberPrev
    /\ UNCHANGED <<out, sessions, desktop>>

OrgRequest(op, status) ==
    /\ req' = Request(op, status, 0, 0, NoRow)
    /\ pre' = {}
    /\ RememberPrev
    /\ UNCHANGED <<out, sessions, desktop>>

\* POST /api/teams -> database.create_team: the commit raises on a taken
\* name, create_team rolls back and raises, the handler answers 400.
create_new_team(name) ==
    /\ Idle
    /\ IF TeamNameTaken(teams, name, 0)
         THEN teams' = teams /\ OrgRequest("create_team", "400")
         ELSE /\ NextId(teams) <= MaxId
              /\ teams' = teams \cup {Team(NextId(teams), name)}
              /\ OrgRequest("create_team", "created")
    /\ UNCHANGED <<employee_rows, rows>>

\* PUT /api/teams/{team_id} -> database.update_team (name None: not given).
update_existing_team(team_id, name) ==
    /\ Idle
    /\ IF \A t \in teams : t.id # team_id
         THEN teams' = teams /\ OrgRequest("update_team", RaisedInTry("404"))
         ELSE IF name # None /\ TeamNameTaken(teams, name, team_id)
         THEN teams' = teams /\ OrgRequest("update_team", "400")
         ELSE /\ teams' = {IF t.id = team_id /\ name # None
                             THEN Team(t.id, name) ELSE t : t \in teams}
              /\ OrgRequest("update_team", "updated")
    /\ UNCHANGED <<employee_rows, rows>>

\* Mutant: the employees go with the team, their vacations stay.
delete_team_keeps_vacations(ts, es, rs, team_id) ==
    <<{t \in ts : t.id # team_id}, {e \in es : e.team_id # team_id}, rs>>

\* session.delete(team): relationship Team.employees and Employee.vacations
\* are cascade="all, delete-orphan", so the team's employees and their
\* vacations are deleted with it.
delete_team(ts, es, rs, team_id) ==
    LET gone == {e.id : e \in {x \in es : x.team_id = team_id}}
    IN <<{t \in ts : t.id # team_id},
         {e \in es : e.team_id # team_id},
         {v \in rs : v.employee_id \notin gone}>>

\* DELETE /api/teams/{team_id} -> database.delete_team.
delete_existing_team(team_id) ==
    /\ Idle
    /\ IF \A t \in teams : t.id # team_id
         THEN /\ UNCHANGED <<teams, employee_rows, rows>>
              /\ OrgRequest("delete_team", RaisedInTry("404"))
         ELSE /\ LET after == delete_team(teams, employee_rows, rows, team_id)
                 IN /\ teams' = after[1]
                    /\ employee_rows' = after[2]
                    /\ rows' = after[3]
              /\ OrgRequestFrom("delete_team", "deleted", rows)

\* POST /api/employees -> database.create_employee: team_id is stored as
\* given (SQLite does not enforce the foreign key: no PRAGMA foreign_keys).
create_new_employee(team_id) ==
    /\ Idle
    /\ Room(employee_rows, 1)
    /\ employee_rows' = employee_rows \cup {Employee(NextId(employee_rows), team_id)}
    /\ OrgRequest("create_employee", "created")
    /\ UNCHANGED <<teams, rows>>

\* PUT /api/employees/{emp_id} -> database.update_employee (team_id 0: not
\* given; `if team_id:` stores any other value).
update_existing_employee(emp_id, team_id) ==
    /\ Idle
    /\ IF \A e \in employee_rows : e.id # emp_id
         THEN employee_rows' = employee_rows /\ OrgRequest("update_employee", RaisedInTry("404"))
         ELSE /\ employee_rows' = {IF e.id = emp_id /\ team_id # 0
                                 THEN Employee(e.id, team_id) ELSE e : e \in employee_rows}
              /\ OrgRequest("update_employee", "updated")
    /\ UNCHANGED <<teams, rows>>

\* session.delete(employee): the employee's vacations go with it.
delete_employee(es, rs, employee_id) ==
    <<{e \in es : e.id # employee_id}, {v \in rs : v.employee_id # employee_id}>>

\* DELETE /api/employees/{emp_id} -> database.delete_employee.
delete_existing_employee(emp_id) ==
    /\ Idle
    /\ IF \A e \in employee_rows : e.id # emp_id
         THEN /\ UNCHANGED <<employee_rows, rows>>
              /\ OrgRequest("delete_employee", RaisedInTry("404"))
         ELSE /\ LET after == delete_employee(employee_rows, rows, emp_id)
                 IN /\ employee_rows' = after[1]
                    /\ rows' = after[2]
              /\ OrgRequestFrom("delete_employee", "deleted", rows)
    /\ UNCHANGED teams

\* An empty database, then the team requests and new employees.
InitTeams ==
    /\ rows = {}
    /\ req = Request("none", "idle", 0, 0, NoRow)
    /\ pre = {}
    /\ prev = Untracked
    /\ out = NoRead
    /\ desktop = DesktopStart
    /\ sessions = [s \in Sessions |-> FormOpen]
    /\ teams = {}
    /\ employee_rows = {}

NextTeams ==
    \/ \E name \in TeamNames : create_new_team(name)
    \/ \E id \in OrgIds, name \in TeamNames \cup {None} : update_existing_team(id, name)
    \/ \E id \in OrgIds : delete_existing_team(id)
    \/ \E team_id \in OrgIds : create_new_employee(team_id)

SpecTeams == InitTeams /\ [][NextTeams]_vars

\* A database with two teams of one employee each and no vacations, then
\* the requests that change or delete them and the two vacation requests
\* that name an employee: a range over the whole period, a toggle of day 1.
InitOrg ==
    /\ rows = {}
    /\ req = Request("none", "idle", 0, 0, NoRow)
    /\ pre = {}
    /\ prev = Untracked
    /\ out = NoRead
    /\ desktop = DesktopStart
    /\ sessions = [s \in Sessions |-> FormOpen]
    /\ teams = FixedTeams
    /\ employee_rows = FixedEmployees

NextOrg ==
    \/ \E id \in Teams, name \in TeamNames \cup {None} : update_existing_team(id, name)
    \/ \E id \in Teams : delete_existing_team(id)
    \/ \E id \in Employees, team_id \in {0} \cup Teams :
          update_existing_employee(id, team_id)
    \/ \E id \in Employees : delete_existing_employee(id)
    \/ \E e \in Employees, p \in Payloads :
          create_vacation_range(e, 1, MaxDay - 1, p[1], p[2])
    \/ \E e \in Employees, d \in {1, MaxDay} : toggle_vacation_add(e, d)

SpecOrg == InitOrg /\ [][NextOrg]_vars

\* ----------------------------------------------------------- properties
\* The days a row covers.
DaysOf(v) == {d \in Days : v.start_date <= d /\ d <= v.end_date}

\* The toggle request has ended with "removed" or "added".
ToggleSucceeded == req.op = "toggle" /\ req.status \in {"removed", "added"}

\* C1: in every reachable state no two Vacation rows of the same employee
\* cover a common day.
NoTwoRowsShareADay ==
    \A v \in rows, w \in rows :
        (v # w /\ v.employee_id = w.employee_id) => DaysOf(v) \cap DaysOf(w) = {}

\* C2: a toggle request that fails leaves the stored rows exactly as they
\* were when the request arrived.
ToggleFailureKeepsRows ==
    (req.op = "toggle" /\ req.status = "error") => rows = pre

\* C3: while a toggle on day d of a stored range [s, e] is in progress, every
\* committed state still has each day of [s, e] other than d covered by a row
\* of that employee.
ToggleKeepsOtherDaysCovered ==
    req.status = "deleting" =>
        \A day \in DaysOf(req.orig) \ {req.date} :
            is_employee_on_vacation(rows, req.employee_id, day)

\* C4: a successful toggle(e, d) flips the vacation membership of (e, d) and
\* of no other (employee, day) pair.
ToggleFlipsExactlyOneDay ==
    ToggleSucceeded =>
        \A e \in Employees, day \in Days :
            is_employee_on_vacation(rows, e, day)
              = IF e = req.employee_id /\ day = req.date
                  THEN ~is_employee_on_vacation(pre, e, day)
                  ELSE is_employee_on_vacation(pre, e, day)

\* C5: from no rows or normalized rows, after any sequence of toggles no two
\* ranges of an employee overlap and no two touch.
ToggleKeepsRowsNormalized ==
    \A v \in rows, w \in rows : ~TouchOrOverlap(v, w)

\* The ranges of a table: what its rows say, ids and notes aside.
Ranges(rs) ==
    {<<v.employee_id, v.start_date, v.end_date, v.vacation_type>> : v \in rs}

\* C6: toggling the same day of the same employee twice in succession leaves
\* exactly the ranges there were before the first toggle.
ToggleTwiceRestoresRanges ==
    (ToggleSucceeded /\ prev.employee_id = req.employee_id /\ prev.date = req.date)
        => /\ Ranges(rows) = Ranges(prev.rows)
           /\ Cardinality(rows) = Cardinality(prev.rows)

\* A request for [start_date, end_date] shares a day with a stored row of the
\* employee other than the row being edited.
OverlapsExisting(employee_id, start_date, end_date, edited_id) ==
    \E v \in rows :
        /\ v.employee_id = employee_id
        /\ v.id # edited_id
        /\ \E d \in DaysOf(v) : start_date <= d /\ d <= end_date

\* The step is a rejection for conflict: nothing is written.
RejectedAsConflict == rows' = rows /\ req'.status = "conflict"

\* C7: at every entry point that creates or edits a range, a request whose
\* interval overlaps another range of the employee is rejected with a conflict
\* error and writes nothing.
OverlappingRequestRejected ==
    [][\A e \in Employees, s \in Days, t \in Days, p \in Payloads :
          /\ (create_vacation_range(e, s, t, p[1], p[2]) /\ OverlapsExisting(e, s, t, 0))
                => RejectedAsConflict
          /\ (add_vacation_form(e, s, t, p[1], p[2]) /\ OverlapsExisting(e, s, t, 0))
                => RejectedAsConflict
          /\ \A v \in rows :
                (edit_vacation_form(v, s, t, p[1], p[2])
                   /\ OverlapsExisting(v.employee_id, s, t, v.id))
                => RejectedAsConflict]_vars

\* What a finished toggle on a covered day kept and what it wrote.
ToggleRemoved == req.op = "toggle" /\ req.status = "removed"
ToggleKept == pre \ {req.orig}
ToggleWrote == rows \ ToggleKept
Intervals(rs) == {<<v.employee_id, v.start_date, v.end_date>> : v \in rs}

\* C8: a toggle on a day strictly inside the range [s, e] it found replaces
\* that range by exactly [s, d-1] and [d+1, e] and answers "removed".
ToggleInteriorDaySplits ==
    (/\ req.op = "toggle" /\ req.status \notin {"deleting", "error"}
     /\ req.orig.start_date < req.date /\ req.date < req.orig.end_date)
        => /\ req.status = "removed"
           /\ req.orig \in pre /\ req.orig \notin rows
           /\ ToggleKept \subseteq rows
           /\ Cardinality(ToggleWrote) = 2
           /\ Intervals(ToggleWrote)
                = {<<req.employee_id, req.orig.start_date, req.date - 1>>,
                   <<req.employee_id, req.date + 1, req.orig.end_date>>}

InteriorDayToggled ==
    /\ ToggleRemoved
    /\ req.orig.start_date < req.date /\ req.date < req.orig.end_date
    /\ Cardinality(rows) = 2

\* C9: a toggle on the first or last day of the multi-day range [s, e] it
\* found replaces that range by the single row [s+1, e] or [s, e-1].
ToggleEndpointShrinks ==
    (ToggleRemoved /\ req.orig.start_date < req.orig.end_date
       /\ req.date \in {req.orig.start_date, req.orig.end_date})
        => /\ req.orig \in pre /\ req.orig \notin rows
           /\ ToggleKept \subseteq rows
           /\ Cardinality(ToggleWrote) = 1
           /\ Intervals(ToggleWrote)
                = {IF req.date = req.orig.start_date
                     THEN <<req.employee_id, req.orig.start_date + 1, req.orig.end_date>>
                     ELSE <<req.employee_id, req.orig.start_date, req.orig.end_date - 1>>}

EndpointToggled ==
    /\ ToggleRemoved
    /\ req.orig.start_date < req.orig.end_date
    /\ req.date \in {req.orig.start_date, req.orig.end_date}
    /\ ToggleWrote # {}

\* C10: a toggle that found the single-day range [d, d] removes that row and
\* writes none: one row fewer, every other row as it was.
ToggleSingleDayRemovesRow ==
    (ToggleRemoved /\ req.orig.start_date = req.orig.end_date)
        => /\ req.orig \in pre
           /\ rows = pre \ {req.orig}
           /\ Cardinality(rows) = Cardinality(pre) - 1

SingleDayToggled ==
    /\ ToggleRemoved
    /\ req.orig.start_date = req.date /\ req.orig.end_date = req.date
    /\ req.orig \notin rows

\* C11: a toggle on a day no range of the employee covers adds exactly one
\* row [d, d] of that employee, leaves every stored row as it was and
\* answers "added".
ToggleUncoveredDayAdds ==
    (/\ req.op = "toggle" /\ req.status \notin {"deleting", "error"}
     /\ CoveringRows(pre, req.employee_id, req.date) = {})
        => /\ req.status = "added"
           /\ pre \subseteq rows
           /\ Cardinality(rows \ pre) = 1
           /\ Intervals(rows \ pre) = {<<req.employee_id, req.date, req.date>>}

UncoveredDayToggled ==
    /\ req.op = "toggle" /\ req.status = "added"
    /\ pre # {}
    /\ \E v \in pre : v.employee_id = req.employee_id

\* C12: from a table whose rows all have start_date <= end_date, no sequence
\* of toggles stores a row with start_date > end_date.
ToggleWritesNoEmptyRange ==
    \A v \in rows : v.start_date <= v.end_date

EndpointPieceOmitted ==
    /\ ToggleRemoved
    /\ req.orig.start_date = req.date /\ req.date < req.orig.end_date
    /\ Cardinality(ToggleWrote) = 1

\* C13: a create or edit request whose start_date is after its end_date is
\* rejected and stores nothing, whichever entry point takes it (the range
\* endpoint of the API, the add form, the edit form).
InvalidRangeRejected ==
    [][\A s \in Days, t \in Days, p \in Payloads :
          s > t =>
            /\ \A e \in Employees :
                  (create_vacation_range(e, s, t, p[1], p[2])
                     \/ add_vacation_form(e, s, t, p[1], p[2]))
                    => (rows' = rows /\ req'.status = "invalid")
            /\ \A v \in rows :
                  edit_vacation_form(v, s, t, p[1], p[2])
                    => (rows' = rows /\ req'.status = "invalid")]_vars

\* The read calls: what was asked and what came back.
ConflictsCall == out.op = "get_vacation_conflicts"
CalendarCall == out.op = "generate_calendar_data"
Elements(seq) == {seq[i] : i \in DOMAIN seq}
Position(seq, v) == CHOOSE i \in DOMAIN seq : seq[i] = v

\* Range v is of the employee and the closed intervals [start_date, end_date]
\* and [v.start_date, v.end_date] share a day.
OverlappingRange(v, employee_id, start_date, end_date) ==
    /\ v.employee_id = employee_id
    /\ start_date <= v.end_date
    /\ v.start_date <= end_date

\* C14: with no range excluded, get_vacation_conflicts returns exactly the
\* ranges of the employee in `existing` whose closed interval meets the
\* asked one (a shared boundary day is a conflict, adjacency is none),
\* each once and in the order of `existing`.
ConflictsAreTheOverlappingRanges ==
    (ConflictsCall /\ out.args[5] = 0) =>
        LET existing == out.args[4]
            conflicts == out.result
        IN /\ Elements(conflicts)
                = {v \in Elements(existing) :
                     OverlappingRange(v, out.args[1], out.args[2], out.args[3])}
           /\ \A j \in DOMAIN conflicts, k \in DOMAIN conflicts :
                 j < k => Position(existing, conflicts[j])
                            < Position(existing, conflicts[k])

BoundaryConflictsAdjacentNot ==
    /\ ConflictsCall /\ out.args[5] = 0
    /\ \E v \in Elements(out.result) : v.end_date = out.args[2]
    /\ \E w \in Elements(out.args[4]) \ Elements(out.result) :
          w.employee_id = out.args[1] /\ w.end_date + 1 = out.args[2]

\* C15: every range get_vacation_conflicts returns is of the employee asked
\* about; a range of another employee is not returned, whatever its dates.
ConflictsAreOfTheEmployee ==
    ConflictsCall => \A v \in Elements(out.result) : v.employee_id = out.args[1]

OtherEmployeeSameDatesNotReturned ==
    /\ ConflictsCall
    /\ out.result # <<>>
    /\ \E w \in Elements(out.args[4]) \ Elements(out.result) :
          /\ w.employee_id # out.args[1]
          /\ w.start_date = out.args[2] /\ w.end_date = out.args[3]

\* C16: with exclude_vacation_id = X, the range with id X is never returned
\* and every other overlapping range of the employee still is.
ExcludedRangeNotReturned ==
    (ConflictsCall /\ out.args[5] # 0) =>
        /\ \A v \in Elements(out.result) : v.id # out.args[5]
        /\ \A v \in Elements(out.args[4]) :
              (v.id # out.args[5]
                 /\ OverlappingRange(v, out.args[1], out.args[2], out.args[3]))
                => v \in Elements(out.result)

OverlappingRangeExcluded ==
    /\ ConflictsCall
    /\ out.result # <<>>
    /\ \E v \in Elements(out.args[4]) :
          /\ v.id = out.args[5]
          /\ OverlappingRange(v, out.args[1], out.args[2], out.args[3])

\* The days of the window [start_date, end_date] that some range of the
\* employee in `vacations` covers.
WindowDays(employee_id, vacations, start_date, end_date) ==
    {d \in Days :
        /\ start_date <= d /\ d <= end_date
        /\ \E v \in Elements(vacations) :
              v.employee_id = employee_id /\ v.start_date <= d /\ d <= v.end_date}

\* C17: for each employee, vacation_dates is exactly the set of days of the
\* window that lie in some supplied range of that employee.
CalendarDatesAreTheWindowDays ==
    CalendarCall =>
        \A e \in out.args[1] :
            out.result[e].vacation_dates
              = WindowDays(e, out.args[2], out.args[3], out.args[4])

PartlyInWindowRangeClipped ==
    /\ CalendarCall
    /\ \E v \in Elements(out.args[2]) :
          /\ v.start_date < out.args[3] /\ out.args[3] <= v.end_date
          /\ out.result[v.employee_id].vacation_dates # {}
          /\ \E e \in out.args[1] :
                e # v.employee_id /\ out.result[e].vacation_dates = {}

\* C18: total_days is the number of distinct days in vacation_dates: a day
\* two ranges cover counts once, a day outside the window does not count.
CalendarTotalCountsDistinctDays ==
    CalendarCall =>
        \A e \in out.args[1] :
            /\ out.result[e].total_days = Cardinality(out.result[e].vacation_dates)
            /\ out.result[e].total_days
                 = Cardinality(WindowDays(e, out.args[2], out.args[3], out.args[4]))

DayCoveredTwiceCountedOnce ==
    /\ CalendarCall
    /\ \E v \in Elements(out.args[2]), w \in Elements(out.args[2]) :
          /\ v # w /\ v.employee_id = w.employee_id
          /\ v.start_date < out.args[3]
          /\ \E d \in DaysOf(v) \cap DaysOf(w) : out.args[3] <= d /\ d <= out.args[4]
          /\ out.result[v.employee_id].total_days = 1

\* C19: for non-overlapping ranges, get_employee_vacation_days(e, year) is the
\* number of days of that year on which the employee is on vacation.
YearTotalCountsDaysOfTheYear ==
    (/\ out.op = "get_employee_vacation_days" /\ out.args[2] # 0
     /\ \A v \in rows, w \in rows :
           (v # w /\ v.employee_id = w.employee_id) => DaysOf(v) \cap DaysOf(w) = {})
        => out.result
             = Cardinality({d \in Days :
                              /\ start_of_year(out.args[2]) <= d
                              /\ d <= end_of_year(out.args[2])
                              /\ is_employee_on_vacation(rows, out.args[1], d)})

\* C20: the window queries return exactly the stored ranges whose closed
\* interval meets the window (of the team's employees, for the team query).
WindowQueriesReturnTheOverlappingRows ==
    /\ out.op = "get_vacations_by_date_range"
         => Elements(out.result)
              = {v \in rows : v.start_date <= out.args[3] /\ v.end_date >= out.args[2]}
    /\ out.op = "get_vacations_by_team_and_date"
         => Elements(out.result)
              = {v \in rows : /\ EmployeeTeam[v.employee_id] = out.args[1]
                              /\ v.start_date <= out.args[3]
                              /\ v.end_date >= out.args[2]}

\* C21: deleting an employee deletes every vacation of that employee, and
\* deleting a team deletes every employee of the team and every vacation of
\* those employees; every other team, employee and vacation stays as it was.
DeletionCascades ==
    [][/\ \A id \in Employees :
            (delete_existing_employee(id) /\ \E e \in employee_rows : e.id = id)
              => /\ \A v \in rows' : v.employee_id # id
                 /\ rows' = {v \in rows : v.employee_id # id}
                 /\ employee_rows' = {e \in employee_rows : e.id # id}
                 /\ teams' = teams
       /\ \A id \in Teams :
            (delete_existing_team(id) /\ \E t \in teams : t.id = id)
              => LET members == {e \in employee_rows : e.team_id = id}
                 IN /\ \A e \in employee_rows' : e.team_id # id
                    /\ \A v \in rows', e \in members : v.employee_id # e.id
                    /\ teams' = {t \in teams : t.id # id}
                    /\ employee_rows' = employee_rows \ members
                    /\ rows' = {v \in rows : \A e \in members : v.employee_id # e.id}]_vars

TeamDeletedWithItsVacations ==
    /\ req.op = "delete_team" /\ req.status = "deleted"
    /\ pre \ rows # {}
    /\ rows # {}
    /\ employee_rows # {}

\* C23: no two stored teams ever have the same name; creating a team under
\* a name that is taken ends in an error and leaves the stored teams as
\* they were.
TeamNamesUnique ==
    /\ [](\A t1, t2 \in teams : t1.name = t2.name => t1 = t2)
    /\ [][\A name \in TeamNames :
            (create_new_team(name) /\ \E t \in teams : t.name = name)
              => teams' = teams /\ req'.status = "400"]_vars

DuplicateTeamNameRefused ==
    /\ req.op = "create_team" /\ req.status = "400"
    /\ Cardinality(teams) = 2

\* C24: the row a toggle adds for an uncovered day has type "vacation" and
\* no notes, whatever the types of the employee's other ranges; the row the
\* range endpoint adds has the type and the notes of the request.
ToggleAddsTypeVacation ==
    [][/\ \A e \in Employees, d \in Days :
            toggle_vacation_add(e, d)
              => \E v \in rows' \ rows :
                    /\ rows' = rows \cup {v}
                    /\ v.vacation_type = "vacation" /\ v.notes = None
       /\ \A e \in Employees, t \in Days, p \in Payloads :
            create_vacation_range(e, 1, t, p[1], p[2])
              => \E v \in rows' \ rows :
                    /\ rows' = rows \cup {v}
                    /\ v.vacation_type = p[1] /\ v.notes = p[2]]_vars

DayAddedNextToSickRange ==
    /\ req.op = "toggle" /\ req.status = "added"
    /\ \E v \in pre : v.employee_id = req.employee_id /\ v.vacation_type = "sick"
    /\ \E w \in rows \ pre : w.employee_id = req.employee_id /\ w.vacation_type = "vacation"

\* C25: every row a removing toggle writes in place of the range it deleted
\* has the vacation_type, the notes and the employee_id of that range.
TogglePiecesCarryOriginal ==
    ToggleRemoved
        => \A v \in ToggleWrote :
              /\ v.vacation_type = req.orig.vacation_type
              /\ v.notes = req.orig.notes
              /\ v.employee_id = req.orig.employee_id
              /\ v.employee_id = req.employee_id

PieceOfSickRangeWritten ==
    /\ ToggleRemoved
    /\ req.orig.vacation_type = "sick" /\ req.orig.notes = "n"
    /\ \E v \in ToggleWrote : v.vacation_type = "sick" /\ v.notes = "n"

\* C26: a toggle for employee e and day d changes at most one of the rows
\* stored when it arrived, and that row is a row of e covering d; every
\* other row is still stored with its id, dates, type and notes.
ToggleChangesOneRow ==
    req.op = "toggle"
        => LET changed == pre \ rows
           IN /\ Cardinality(changed) <= 1
              /\ \A v \in changed :
                    v.employee_id = req.employee_id /\ req.date \in DaysOf(v)

OtherRowOfEmployeeKept ==
    /\ ToggleRemoved
    /\ pre \ rows = {req.orig}
    /\ \E v \in pre \cap rows : v.employee_id = req.employee_id

\* C27: in every state the vacation, employee and team requests reach, the
\* employee_id of every vacation is the id of a stored employee and the
\* team_id of every employee is the id of a stored team.
ReferencesExist ==
    /\ \A v \in rows : \E e \in employee_rows : e.id = v.employee_id
    /\ \A e \in employee_rows : \E t \in teams : t.id = e.team_id

\* C28: a PUT or DELETE on /api/teams/{id} or /api/employees/{id} whose id
\* is the id of no stored team or employee is answered with status 404 and
\* leaves teams, employees and vacations as they were.
NotFoundAnswers404 ==
    [][/\ \A id \in Teams :
            (/\ \A t \in teams : t.id # id
             /\ \/ delete_existing_team(id)
                \/ \E name \in TeamNames \cup {None} : update_existing_team(id, name))
              => req'.status = "404" /\ UNCHANGED <<teams, employee_rows, rows>>
       /\ \A id \in Employees :
            (/\ \A e \in employee_rows : e.id # id
             /\ \/ delete_existing_employee(id)
                \/ \E team_id \in {0} \cup Teams : update_existing_employee(id, team_id))
              => req'.status = "404" /\ UNCHANGED <<teams, employee_rows, rows>>]_vars

\* Rows v and w are two rows of one employee with a day in common.
OverlappingRows(v, w) ==
    v # w /\ OverlappingRange(v, w.employee_id, w.start_date, w.end_date)

MemberDays == VacationDays(desktop.vacation_days, desktop.heap)

\* C30: a toggle in the desktop planner for a member and a day changes
\* that member's vacation_days by exactly that day, in or out, and changes
\* no other member's vacation_days; the same toggle made twice in a row
\* leaves every day-set as it was before the first.
DesktopToggleFlipsOneDay ==
    /\ [](desktop.toggled # NoToggle
            => LET member == desktop.toggled[1]
                   date_str == desktop.toggled[2]
               IN /\ MemberDays[member] \ {date_str} = desktop.before[member] \ {date_str}
                  /\ date_str \in MemberDays[member] <=> date_str \notin desktop.before[member]
                  /\ \A other \in Members \ {member} :
                        MemberDays[other] = desktop.before[other])
    /\ [][\A member \in Members, date_str \in Days :
            (toggle_vacation(member, date_str) /\ desktop.toggled = <<member, date_str>>)
              => VacationDays(desktop'.vacation_days, desktop'.heap) = desktop.before]_vars

CopiedDaySetToggledAlone ==
    /\ desktop.toggled[1] = "Adrian"
    /\ MemberDays["Jesus"] = Days
    /\ MemberDays["Adrian"] # Days
    /\ desktop.before["Adrian"] # Days
====
